---- MODULE Spec2Model ----
(***************************************************************************)
(* Model of packages/key4hep-stack/common.py (key4hep-spack).              *)
(*                                                                         *)
(* Strings are sequences of one-character strings, so that splitting,      *)
(* joining, normalising and quoting are computed character by character.   *)
(* The fixed pieces of a format string ("export ", a variable name, the    *)
(* "is set multiple times!" text) are kept as one element each.            *)
(***************************************************************************)
EXTENDS Integers, Sequences, FiniteSets, TLC

VARIABLES
    env_mod,      \* the EnvironmentModifications log handed to the renderer
    script,       \* outcome of the last k4_generate_setup_script call
    github_env,   \* GITHUB_USER / GITHUB_TOKEN of the process environment
    lookup,       \* outcome of the last k4_lookup_latest_commit call
    pkg,          \* the package whose url ilc_url_for_version reads
    url_res,      \* outcome of the last ilc_url_for_version call
    db,           \* the concretized stack: dependency graph, compilers, packages
    environ,      \* value of the environment variable naming the symlink path
    hashseed,     \* iteration order of a set of variable names in the installs
    fs,           \* the file system: prefixes, setup.sh files, the symlink path
    disk,         \* the file system: st_blksize, the size a file can grow to
    inst          \* per spec installed: its install_setup_script call

vars == <<env_mod, script, github_env, lookup, pkg, url_res,
          db, environ, hashseed, fs, disk, inst>>

renderVars  == <<env_mod, script>>
commitVars  == <<github_env, lookup>>
urlVars     == <<pkg, url_res>>
installVars == <<db, environ, hashseed, fs, disk, inst>>

----------------------------------------------------------------------------
(* Bounds of the model.                                                    *)

\* longest modification log built before rendering
MaxLog == 3

\* longest response text enumerated for the commit lookup
MaxResponse == 3

\* largest size limit of a file tried, in bytes
MaxFileSize == 134

\* largest version component enumerated (besides the three-digit ones)
MaxComponent == 11

----------------------------------------------------------------------------
(* Python string primitives.                                               *)

\* str.split(sep): the pieces between occurrences of sep; "" gives [""].
RECURSIVE split(_, _)
split(s, sep) ==
    IF \A i \in 1..Len(s) : s[i] # sep
    THEN <<s>>
    ELSE LET i == CHOOSE k \in 1..Len(s) :
                      s[k] = sep /\ \A j \in 1..(k - 1) : s[j] # sep
         IN  <<SubSeq(s, 1, i - 1)>> \o split(SubSeq(s, i + 1, Len(s)), sep)

\* sep.join(parts)
RECURSIVE join(_, _)
join(parts, sep) ==
    IF parts = <<>> THEN <<>>
    ELSE IF Len(parts) = 1 THEN parts[1]
    ELSE parts[1] \o <<sep>> \o join(Tail(parts), sep)

\* ''.join(parts)
RECURSIVE concat(_)
concat(parts) ==
    IF parts = <<>> THEN <<>> ELSE Head(parts) \o concat(Tail(parts))

\* llnl.util.lang.dedupe: drop every element seen before, keep the order.
RECURSIVE dedupe(_, _)
dedupe(paths, seen) ==
    IF paths = <<>> THEN <<>>
    ELSE IF Head(paths) \in seen THEN dedupe(Tail(paths), seen)
    ELSE <<Head(paths)>> \o dedupe(Tail(paths), seen \cup {Head(paths)})

\* mutant of prune_duplicate_paths: keeps the last occurrence of each path
prune_keeping_last(paths) ==
    LET rev(q) == [i \in 1..Len(q) |-> q[Len(q) + 1 - i]]
    IN  rev(dedupe(rev(paths), {}))

prune_duplicate_paths(paths) == dedupe(paths, {})

Dot    == <<".">>
DotDot == <<".", ".">>

\* the component loop of posixpath.normpath
RECURSIVE normcomps(_, _, _)
normcomps(comps, new_comps, initial_slashes) ==
    IF comps = <<>> THEN new_comps
    ELSE LET comp == Head(comps)
             n    == Len(new_comps)
         IN  IF comp = <<>> \/ comp = Dot
             THEN normcomps(Tail(comps), new_comps, initial_slashes)
             ELSE IF \/ comp # DotDot
                     \/ (initial_slashes = 0 /\ n = 0)
                     \/ (n > 0 /\ new_comps[n] = DotDot)
             THEN normcomps(Tail(comps), Append(new_comps, comp), initial_slashes)
             ELSE IF n > 0
             THEN normcomps(Tail(comps), SubSeq(new_comps, 1, n - 1), initial_slashes)
             ELSE normcomps(Tail(comps), new_comps, initial_slashes)

\* os.path.normpath on POSIX
normpath(path) ==
    IF path = <<>> THEN Dot
    ELSE LET starts(k) == Len(path) >= k /\ \A i \in 1..k : path[i] = "/"
             initial_slashes ==
                 IF ~starts(1) THEN 0
                 ELSE IF starts(2) /\ ~starts(3) THEN 2 ELSE 1
             body == join(normcomps(split(path, "/"), <<>>, initial_slashes), "/")
             res  == [i \in 1..initial_slashes |-> "/"] \o body
         IN  IF res = <<>> THEN Dot ELSE res

\* the characters shlex.quote leaves alone: [A-Za-z0-9_@%+=:,./-]
\* the characters shlex.quote leaves alone; "b*9000" and "b*8052" are one
\* element each, standing for a run of 9000 and of 8052 letters b
SafeChars ==
    { "a","b","c","d","e","f","g","h","i","j","k","l","m",
      "n","o","p","q","r","s","t","u","v","w","x","y","z",
      "A","B","C","D","E","F","G","H","I","J","K","L","M",
      "N","O","P","Q","R","S","T","U","V","W","X","Y","Z",
      "0","1","2","3","4","5","6","7","8","9","_",
      "@","%","+","=",":",",",".","/","-",
      "b*9000", "b*8052" }

\* s.replace("'", "'\"'\"'")
RECURSIVE escape_quotes(_)
escape_quotes(s) ==
    IF s = <<>> THEN <<>>
    ELSE (IF Head(s) = "'" THEN <<"'", "\"", "'", "\"", "'">> ELSE <<Head(s)>>)
         \o escape_quotes(Tail(s))

\* shlex.quote, imported by spack.util.environment as cmd_quote
cmd_quote(s) ==
    IF s = <<>> THEN <<"'", "'">>
    ELSE IF \A i \in 1..Len(s) : s[i] \in SafeChars THEN s
    ELSE <<"'">> \o escape_quotes(s) \o <<"'">>

----------------------------------------------------------------------------
(* Dictionaries (a function on the set of keys present).                   *)

\* f applied to the value of v, v being worked out once however often f
\* uses it (a loop variable, a local variable of the code)
bind(v, f(_)) == CHOOSE y \in {f(x) : x \in {v}} : TRUE

DictSet(d, k, v) == [x \in (DOMAIN d) \cup {k} |-> IF x = k THEN v ELSE d[x]]
DictPop(d, k)    == [x \in (DOMAIN d) \ {k} |-> d[x]]
DictGet(d, k, default) == IF k \in DOMAIN d THEN d[k] ELSE default
EmptyDict == [x \in {} |-> <<>>]

----------------------------------------------------------------------------
(* spack.util.environment: the modifications a log holds and what each     *)
(* does to a dictionary when executed (x.execute(new_env)).                *)

SetEnvOp(name, value) ==
    [kind |-> "SetEnv", name |-> name, value |-> value, elements |-> <<>>]
SetPathOp(name, elements) ==
    [kind |-> "SetPath", name |-> name, value |-> <<>>, elements |-> elements]
PrependPathOp(name, value) ==
    [kind |-> "PrependPath", name |-> name, value |-> value, elements |-> <<>>]
AppendPathOp(name, value) ==
    [kind |-> "AppendPath", name |-> name, value |-> value, elements |-> <<>>]
RemovePathOp(name, value) ==
    [kind |-> "RemovePath", name |-> name, value |-> value, elements |-> <<>>]
AppendFlagsOp(name, value) ==
    [kind |-> "AppendFlagsEnv", name |-> name, value |-> value, elements |-> <<>>]
UnsetEnvOp(name) ==
    [kind |-> "UnsetEnv", name |-> name, value |-> <<>>, elements |-> <<>>]

\* environment_value.split(separator) if environment_value else []
directories_of(env, name) ==
    LET environment_value == DictGet(env, name, <<>>)
    IN  IF environment_value # <<>> THEN split(environment_value, ":") ELSE <<>>

RECURSIVE remove_dir(_, _)
remove_dir(directories, value) ==
    IF directories = <<>> THEN <<>>
    ELSE (IF Head(directories) # normpath(value)
          THEN <<normpath(Head(directories))>> ELSE <<>>)
         \o remove_dir(Tail(directories), value)

execute(x, env) ==
    CASE x.kind = "SetEnv" ->
           DictSet(env, x.name, x.value)
      [] x.kind = "SetPath" ->
           DictSet(env, x.name, join(x.elements, ":"))
      [] x.kind = "PrependPath" ->
           DictSet(env, x.name,
                   join(<<normpath(x.value)>> \o directories_of(env, x.name), ":"))
      [] x.kind = "AppendPath" ->
           DictSet(env, x.name,
                   join(Append(directories_of(env, x.name), normpath(x.value)), ":"))
      [] x.kind = "RemovePath" ->
           DictSet(env, x.name,
                   join(remove_dir(directories_of(env, x.name), x.value), ":"))
      [] x.kind = "AppendFlagsEnv" ->
           IF x.name \in DOMAIN env /\ env[x.name] # <<>>
           THEN DictSet(env, x.name, env[x.name] \o <<" ">> \o x.value)
           ELSE DictSet(env, x.name, x.value)
      [] x.kind = "UnsetEnv" ->
           DictPop(env, x.name)

\* mutant of is_set: SetPath forgotten
is_set_env_only(x) == x.kind = "SetEnv"

\* isinstance(x, (SetPath, SetEnv))
is_set(x) == x.kind \in {"SetPath", "SetEnv"}

----------------------------------------------------------------------------
(* k4_generate_setup_script                                                *)

\* every variable name of the model, in the order sorted() puts them
AllNamesSorted == <<"CC", "CXX", "F77", "FC", "PATH", "SPACK_LOADED_HASHES">>

\* env_mod.group_by_name()[name]
group_by_name(log, name) == SelectSeq(log, LAMBDA x : x.name = name)

names_of(log) == {log[i].name : i \in 1..Len(log)}

\* the inner loop over one variable's actions (lines 48-51)
RECURSIVE run_actions(_, _, _)
run_actions(actions, flag, env) ==
    IF actions = <<>> THEN [flag |-> flag, env |-> env]
    ELSE bind(execute(Head(actions), env),
              LAMBDA e : run_actions(Tail(actions),
                                     flag \/ is_set(Head(actions)), e))

\* mutant of warns: warns from the third action on
warns_after_two(flag, actions) == flag /\ Len(actions) > 2

\* the warning test of line 52
warns(flag, actions) == flag /\ Len(actions) > 1

warn_multiple(name) == <<"Var ", name, "is set multiple times!">>

\* the outer loop over sorted(modifications.items()) (lines 46-53)
RECURSIVE run_names(_, _, _)
run_names(names, log, acc) ==
    IF names = <<>> THEN acc
    ELSE LET name    == Head(names)
             actions == group_by_name(log, name)
             step(r) ==
                 [new_env  |-> r.env,
                  env_set_not_prepend |-> DictSet(acc.env_set_not_prepend, name, r.flag),
                  warnings |-> IF warns(r.flag, actions)
                               THEN Append(acc.warnings, warn_multiple(name))
                               ELSE acc.warnings]
         IN  bind(bind(run_actions(actions, FALSE, acc.new_env), step),
                  LAMBDA a : run_names(Tail(names), log, a))

\* the de-duplication of lines 56-59, for one value
dedup_value(value) == join(prune_duplicate_paths(split(value, ":")), ":")

\* mutant of shell_set: the prepend template used for a set variable
shell_set_self_referential(name, value) ==
    <<"export ", name, "=">> \o value \o <<":", "$", name, ";", "\n">>

\* k4_shell_set_strings['sh'].format(name, value)
shell_set(name, value) == <<"export ", name, "=">> \o value \o <<";", "\n">>

\* k4_shell_prepend_strings['sh'].format(name, value)
shell_prepend(name, value) ==
    <<"export ", name, "=">> \o value \o <<":", "$", name, ";", "\n">>

\* one entry of cmds (lines 71-76)
cmd_for(name, new_env, env_set_not_prepend) ==
    IF env_set_not_prepend[name]
    THEN shell_set(name, cmd_quote(new_env[name]))
    ELSE shell_prepend(name, cmd_quote(new_env[name]))

\* `order` is the order in which set(new_env) hands out its elements.
k4_generate_setup_script(log, order) ==
    LET sorted_names == SelectSeq(AllNamesSorted, LAMBDA n : n \in names_of(log))
        r == run_names(sorted_names, log,
                       [new_env |-> EmptyDict,
                        env_set_not_prepend |-> [x \in {} |-> FALSE],
                        warnings |-> <<>>])
        new_env == [n \in DOMAIN r.new_env |-> dedup_value(r.new_env[n])]
        iter    == SelectSeq(order, LAMBDA n : n \in DOMAIN new_env)
        cmds    == [i \in 1..Len(iter) |->
                       cmd_for(iter[i], new_env, r.env_set_not_prepend)]
    IN  [ret      |-> concat(cmds),
         warnings |-> r.warnings,
         new_env  |-> new_env,
         env_set_not_prepend |-> r.env_set_not_prepend]

\* all orders in which the elements of a set can be handed out
RECURSIVE Perms(_)
Perms(S) ==
    IF S = {} THEN {<<>>}
    ELSE UNION {{<<x>> \o p : p \in Perms(S \ {x})} : x \in S}


----------------------------------------------------------------------------
(* The renderer on its own: a caller builds a log through the              *)
(* EnvironmentModifications interface, then renders it.                    *)

RenderNames == {"CC", "PATH"}

GccPath     == <<"/","u","s","r","/","b","i","n","/","g","c","c">>
PathA       == <<"/","a">>
PathB       == <<"/","b">>
PathASlash  == <<"/","a","/">>
SpacedValue == <<"a"," ","b">>
TwiceA      == <<"/","a",":","/","a">>
OptFlag     == <<"-","O","2">>

\* values handed to env_mod.set
SetValues     == {GccPath, SpacedValue, TwiceA, <<>>}
\* directories handed to env_mod.prepend_path
PrependValues == {PathA, PathB, PathASlash}
\* directories handed to append_path and remove_path
AppendValues  == {PathB}
RemoveValues  == {PathA}
\* element lists handed to env_mod.set_path
PathLists     == {<<PathA, PathA>>}
\* flags handed to env_mod.append_flags
FlagValues    == {OptFlag}

NoScript ==
    [done |-> FALSE, ret |-> <<>>, warnings |-> <<>>,
     new_env |-> EmptyDict, env_set_not_prepend |-> [x \in {} |-> FALSE]]

\* the log can still grow: nothing rendered yet, and the bound not reached
CanRecord == ~script.done /\ Len(env_mod) < MaxLog

set ==
    \E name \in RenderNames, value \in SetValues :
        /\ CanRecord
        /\ env_mod' = Append(env_mod, SetEnvOp(name, value))
        /\ UNCHANGED <<script, commitVars, urlVars, installVars>>

set_path ==
    \E name \in RenderNames, elements \in PathLists :
        /\ CanRecord
        /\ env_mod' = Append(env_mod, SetPathOp(name, elements))
        /\ UNCHANGED <<script, commitVars, urlVars, installVars>>

prepend_path ==
    \E name \in RenderNames, value \in PrependValues :
        /\ CanRecord
        /\ env_mod' = Append(env_mod, PrependPathOp(name, value))
        /\ UNCHANGED <<script, commitVars, urlVars, installVars>>

append_path ==
    \E name \in RenderNames, value \in AppendValues :
        /\ CanRecord
        /\ env_mod' = Append(env_mod, AppendPathOp(name, value))
        /\ UNCHANGED <<script, commitVars, urlVars, installVars>>

remove_path ==
    \E name \in RenderNames, value \in RemoveValues :
        /\ CanRecord
        /\ env_mod' = Append(env_mod, RemovePathOp(name, value))
        /\ UNCHANGED <<script, commitVars, urlVars, installVars>>

append_flags ==
    \E name \in RenderNames, value \in FlagValues :
        /\ CanRecord
        /\ env_mod' = Append(env_mod, AppendFlagsOp(name, value))
        /\ UNCHANGED <<script, commitVars, urlVars, installVars>>

unset ==
    \E name \in RenderNames :
        /\ CanRecord
        /\ env_mod' = Append(env_mod, UnsetEnvOp(name))
        /\ UNCHANGED <<script, commitVars, urlVars, installVars>>

Generate ==
    /\ ~script.done
    /\ \E order \in Perms(RenderNames) :
          LET r == k4_generate_setup_script(env_mod, order)
          IN  script' = [done |-> TRUE, ret |-> r.ret, warnings |-> r.warnings,
                         new_env |-> r.new_env,
                         env_set_not_prepend |-> r.env_set_not_prepend]
    /\ UNCHANGED <<env_mod, commitVars, urlVars, installVars>>

RenderIdle == env_mod = <<>> /\ script = NoScript
CommitIdle == github_env = <<>> /\ lookup = <<>>
UrlIdle    == pkg = <<>> /\ url_res = <<>>
InstallIdle ==
    /\ db = <<>> /\ environ = <<>> /\ hashseed = <<>>
    /\ fs = <<>> /\ disk = <<>> /\ inst = <<>>

InitRender == RenderIdle /\ CommitIdle /\ UrlIdle /\ InstallIdle

NextRender ==
    \/ set
    \/ set_path
    \/ prepend_path
    \/ append_path
    \/ remove_path
    \/ append_flags
    \/ unset
    \/ Generate

SpecRender == InitRender /\ [][NextRender]_vars


----------------------------------------------------------------------------
(* Properties of the renderer.                                             *)

\* the lines of a script: the pieces that end in a newline
ScriptLines(text) ==
    LET pieces == split(text, "\n")
    IN  SubSeq(pieces, 1, Len(pieces) - 1)

\* the positions of the export lines of a script that assign `name`
LinesFor(text, name) ==
    LET lines == ScriptLines(text)
    IN  {i \in 1..Len(lines) :
            /\ Len(lines[i]) >= 3
            /\ SubSeq(lines[i], 1, 3) = <<"export ", name, "=">>}

TheLineFor(text, name) ==
    ScriptLines(text)[CHOOSE i \in LinesFor(text, name) : TRUE]

PlainLine(name, value)   == <<"export ", name, "=">> \o value \o <<";">>
SelfRefLine(name, value) == <<"export ", name, "=">> \o value \o <<":", "$", name, ";">>

SetCount(log, name) ==
    Cardinality({i \in 1..Len(log) :
                    log[i].name = name /\ log[i].kind \in {"SetEnv", "SetPath"}})

OpCount(log, name) == Cardinality({i \in 1..Len(log) : log[i].name = name})

WarningCount(warnings, name) ==
    Cardinality({i \in 1..Len(warnings) :
                    warnings[i] = <<"Var ", name, "is set multiple times!">>})

HasValue(name) == name \in DOMAIN script.new_env

\* C1: every variable that ends up with a value has exactly one export line;
\* the line is `export NAME=VALUE;` when some operation on the variable is a
\* set (SetEnv or SetPath) and `export NAME=VALUE:$NAME;` when none is,
\* whatever the other operations are. A variable without a value has no line.
C1_OneLinePerVariable ==
    script.done =>
        \A name \in RenderNames :
            IF HasValue(name)
            THEN /\ Cardinality(LinesFor(script.ret, name)) = 1
                 /\ LET value == cmd_quote(script.new_env[name])
                    IN  TheLineFor(script.ret, name) =
                            IF SetCount(env_mod, name) > 0
                            THEN PlainLine(name, value)
                            ELSE SelfRefLine(name, value)
            ELSE LinesFor(script.ret, name) = {}

\* C1 witness: one variable set through set_path and then prepended to, and
\* another built from non-set operations that are not all prepends.
C1_Witness ==
    /\ script.done
    /\ \E n1, n2 \in RenderNames :
          /\ n1 # n2 /\ HasValue(n1) /\ HasValue(n2)
          /\ \E i, j \in 1..Len(env_mod) :
                /\ i < j
                /\ env_mod[i] = SetPathOp(n1, <<PathA, PathA>>)
                /\ env_mod[j].name = n1 /\ env_mod[j].kind = "PrependPath"
          /\ SetCount(env_mod, n2) = 0
          /\ \E i \in 1..Len(env_mod) :
                env_mod[i].name = n2 /\ env_mod[i].kind = "AppendPath"

OnlyPrependsOn(log, name) ==
    /\ log # <<>>
    /\ \A i \in 1..Len(log) : log[i].name = name /\ log[i].kind = "PrependPath"

\* the values of a log, last first, each passed through f
Reversed(log, f(_)) ==
    [i \in 1..Len(log) |-> f(log[Len(log) + 1 - i].value)]

\* the elements of a sequence whose value did not occur earlier in it
FirstOccurrences(seq) ==
    LET keep == {i \in 1..Len(seq) : \A j \in 1..(i - 1) : seq[j] # seq[i]}
        F[n \in 0..Len(seq)] ==
            IF n = 0 THEN <<>>
            ELSE IF n \in keep THEN Append(F[n - 1], seq[n]) ELSE F[n - 1]
    IN  F[Len(seq)]

Identity(v) == v

\* C2 as stated: for a log of prepends on one variable the script is
\* `export NAME=V:$NAME;` with V the prepended paths, latest first, joined on
\* `:`, split on `:`, later duplicates dropped, rejoined.
C2_AsStated ==
    script.done =>
        \A name \in RenderNames :
            OnlyPrependsOn(env_mod, name) =>
                script.ret =
                    SelfRefLine(name,
                        join(FirstOccurrences(
                                 split(join(Reversed(env_mod, Identity), ":"), ":")),
                             ":"))
                    \o <<"\n">>

\* C2 amended: the same, with each prepended path normalised as
\* os.path.normpath does before it is placed in front, and the final value
\* shell-quoted; prepending /a, /b, /a to PATH gives `export PATH=/a:/b:$PATH;`.
C2_PrependsDeduplicated ==
    script.done =>
        /\ \A name \in RenderNames :
              OnlyPrependsOn(env_mod, name) =>
                  script.ret =
                      SelfRefLine(name,
                          cmd_quote(
                              join(FirstOccurrences(
                                       split(join(Reversed(env_mod, normpath), ":"), ":")),
                                   ":")))
                      \o <<"\n">>
        /\ env_mod = <<PrependPathOp("PATH", PathA), PrependPathOp("PATH", PathB),
                       PrependPathOp("PATH", PathA)>>
              => script.ret = <<"export ", "PATH", "=", "/", "a", ":", "/", "b",
                                ":", "$", "PATH", ";", "\n">>

\* C2 witness: /a, /b, /a prepended to PATH and rendered.
C2_Witness ==
    /\ script.done
    /\ env_mod = <<PrependPathOp("PATH", PathA), PrependPathOp("PATH", PathB),
                   PrependPathOp("PATH", PathA)>>

SingleSetOf(log, name) ==
    /\ OpCount(log, name) = 1
    /\ \E i \in 1..Len(log) : log[i].name = name /\ log[i].kind = "SetEnv"

SetValueOf(log, name) ==
    log[CHOOSE i \in 1..Len(log) : log[i].name = name].value

\* a value that neither de-duplication nor quoting changes
PlainValue(v) ==
    /\ v # <<>>
    /\ \A i \in 1..Len(v) : v[i] \in SafeChars
    /\ LET parts == split(v, ":")
       IN  \A i, j \in 1..Len(parts) : i # j => parts[i] # parts[j]

\* C3 as stated: a variable whose only operation is one set to V gets exactly
\* the line `export NAME=V;`, V unchanged, for every string V.
C3_AsStated ==
    script.done =>
        \A name \in RenderNames :
            SingleSetOf(env_mod, name) =>
                /\ Cardinality(LinesFor(script.ret, name)) = 1
                /\ TheLineFor(script.ret, name) =
                       PlainLine(name, SetValueOf(env_mod, name))

\* C3 amended: such a variable gets exactly one line, of the plain form, whose
\* value is V with repeated `:`-separated parts dropped and then shell-quoted;
\* it is V itself when V is not empty, holds only characters the shell leaves
\* alone and has no repeated part.
C3_SingleSet ==
    script.done =>
        \A name \in RenderNames :
            SingleSetOf(env_mod, name) =>
                LET V == SetValueOf(env_mod, name)
                IN  /\ Cardinality(LinesFor(script.ret, name)) = 1
                    /\ TheLineFor(script.ret, name) =
                           PlainLine(name, cmd_quote(dedup_value(V)))
                    /\ PlainValue(V) =>
                           TheLineFor(script.ret, name) = PlainLine(name, V)

\* C3 witness: CC set once to /usr/bin/gcc and rendered.
C3_Witness ==
    /\ script.done
    /\ SingleSetOf(env_mod, "CC")
    /\ SetValueOf(env_mod, "CC") = GccPath
    /\ TheLineFor(script.ret, "CC") = PlainLine("CC", GccPath)

\* a word the shell reads as one word: characters it leaves alone, or a
\* single-quoted string
ShellWord(w) ==
    \/ w # <<>> /\ \A i \in 1..Len(w) : w[i] \in SafeChars
    \/ /\ Len(w) >= 2 /\ w[1] = "'" /\ w[Len(w)] = "'"
       /\ \A i \in 2..(Len(w) - 1) : w[i] # "'"

WellFormedLineFor(text, name) ==
    /\ Cardinality(LinesFor(text, name)) = 1
    /\ LET line == TheLineFor(text, name)
       IN  /\ Len(line) >= 5
           /\ line[Len(line)] = ";"
           /\ ShellWord(SubSeq(line, 4, Len(line) - 1))

\* C4 as stated: a variable with two or more set operations gets exactly one
\* warning, the renderer returns, and the script holds exactly one well-formed
\* export line for the variable.
C4_AsStated ==
    script.done =>
        \A name \in RenderNames :
            SetCount(env_mod, name) >= 2 =>
                /\ WarningCount(script.warnings, name) = 1
                /\ WellFormedLineFor(script.ret, name)

\* C4 amended: such a variable gets exactly one warning and the renderer
\* returns; the script holds exactly one well-formed export line for it when
\* it still has a value at the end of the log, and none when a later unset
\* removed it.
C4_MultipleSets ==
    script.done =>
        \A name \in RenderNames :
            SetCount(env_mod, name) >= 2 =>
                /\ WarningCount(script.warnings, name) = 1
                /\ HasValue(name) => WellFormedLineFor(script.ret, name)
                /\ ~HasValue(name) => LinesFor(script.ret, name) = {}

\* C4 witness: a variable set twice, the second time to a value that needs
\* quoting, rendered with its warning.
C4_Witness ==
    /\ script.done
    /\ \E name \in RenderNames :
          /\ SetCount(env_mod, name) = 2
          /\ env_mod[Len(env_mod)] = SetEnvOp(name, SpacedValue)
          /\ WarningCount(script.warnings, name) = 1
          /\ WellFormedLineFor(script.ret, name)

\* C10: a warning is issued for a variable only if the variable has more than
\* one set operation in the log.
C10_WarnsOnlyOnMultipleSets ==
    script.done =>
        \A name \in RenderNames :
            WarningCount(script.warnings, name) > 0 => SetCount(env_mod, name) > 1


----------------------------------------------------------------------------
(* k4_lookup_latest_commit                                                 *)

\* A character outside ASCII, and the vertical tab, is written as its code
\* point: "U+00A0" is the one character NO-BREAK SPACE.
HexDigits ==
    { "0","1","2","3","4","5","6","7","8","9",
      "a","b","c","d","e","f","A","B","C","D","E","F" }

AsciiDigits == <<"0","1","2","3","4","5","6","7","8","9">>

\* decimal digits of other scripts (Unicode category Nd): ARABIC-INDIC and
\* FULLWIDTH stand for all of them
ArabicIndicDigits ==
    <<"U+0660","U+0661","U+0662","U+0663","U+0664",
      "U+0665","U+0666","U+0667","U+0668","U+0669">>
FullwidthDigits ==
    <<"U+FF10","U+FF11","U+FF12","U+FF13","U+FF14",
      "U+FF15","U+FF16","U+FF17","U+FF18","U+FF19">>

\* the characters str.isspace() holds of, which int() strips: the six of
\* ASCII (U+000B is the vertical tab) and those of Unicode
Whitespace ==
    { " ", "\t", "\n", "U+000B", "\f", "\r",
      "U+0085", "U+00A0", "U+1680", "U+2000", "U+2001", "U+2002", "U+2003",
      "U+2004", "U+2005", "U+2006", "U+2007", "U+2008", "U+2009", "U+200A",
      "U+2028", "U+2029", "U+202F", "U+205F", "U+3000" }

\* what int() makes of one character before it parses: a decimal digit of
\* any script becomes the ASCII digit of its value, a space becomes " "
to_ascii(c) ==
    IF c \in Whitespace THEN " "
    ELSE IF \E d \in 1..10 : c = ArabicIndicDigits[d]
    THEN AsciiDigits[CHOOSE d \in 1..10 : c = ArabicIndicDigits[d]]
    ELSE IF \E d \in 1..10 : c = FullwidthDigits[d]
    THEN AsciiDigits[CHOOSE d \in 1..10 : c = FullwidthDigits[d]]
    ELSE c

transform_decimal_and_space(text) == [i \in 1..Len(text) |-> to_ascii(text[i])]

RECURSIVE lstrip(_)
lstrip(s) ==
    IF s # <<>> /\ Head(s) \in Whitespace THEN lstrip(Tail(s)) ELSE s

RECURSIVE rstrip(_)
rstrip(s) ==
    IF s # <<>> /\ s[Len(s)] \in Whitespace
    THEN rstrip(SubSeq(s, 1, Len(s) - 1)) ELSE s

\* mutant of int_base16_parses: int(commit), the base forgotten
int_base10_parses(text) ==
    LET t == rstrip(lstrip(transform_decimal_and_space(text)))
        v == IF t # <<>> /\ t[1] \in {"+", "-"} THEN Tail(t) ELSE t
    IN  /\ v # <<>>
        /\ v[1] # "_" /\ v[Len(v)] # "_"
        /\ \A i \in 1..Len(v) :
              v[i] \in {"0","1","2","3","4","5","6","7","8","9","_"}
        /\ \A i \in 1..(Len(v) - 1) : ~(v[i] = "_" /\ v[i + 1] = "_")

\* whether int(text, 16) returns (TRUE) or raises ValueError (FALSE):
\* surrounding whitespace, one sign, an optional 0x/0X prefix, then hex digits
\* with single underscores between them, digits and spaces of any script
\* counting as their ASCII ones
int_base16_parses(text) ==
    LET t  == rstrip(lstrip(transform_decimal_and_space(text)))
        u  == IF t # <<>> /\ t[1] \in {"+", "-"} THEN Tail(t) ELSE t
        prefixed == Len(u) >= 2 /\ u[1] = "0" /\ u[2] \in {"x", "X"}
        w  == IF prefixed THEN SubSeq(u, 3, Len(u)) ELSE u
        v  == IF prefixed /\ w # <<>> /\ w[1] = "_" THEN Tail(w) ELSE w
    IN  /\ v # <<>>
        /\ v[1] # "_" /\ v[Len(v)] # "_"
        /\ \A i \in 1..Len(v) : v[i] \in HexDigits \cup {"_"}
        /\ \A i \in 1..(Len(v) - 1) : ~(v[i] = "_" /\ v[i + 1] = "_")

\* giturl % repoinfo: the template needs exactly one %s
format_ok(giturl) == Cardinality({i \in 1..Len(giturl) : giturl[i] = "%s"}) = 1

format_url(giturl, repoinfo) ==
    concat([i \in 1..Len(giturl) |->
               IF giturl[i] = "%s" THEN repoinfo ELSE <<giturl[i]>>])

\* lines 98-106: the command handed to os.popen
curl_command(genv, repoinfo, giturl) ==
    join(<<<<"curl -s ">>>>
         \o (IF genv.user # <<>> /\ genv.token # <<>>
             THEN <<<<" -u ">> \o genv.user \o <<":">> \o genv.token \o <<" ">>>>
             ELSE <<>>)
         \o <<format_url(giturl, repoinfo)>>
         \o <<<<" -H \"Accept: application/vnd.github.VERSION.sha\" ">>>>,
         " ")

\* `response` is what the command prints. The outcome: the command run (none
\* when formatting the url raised), whether the call raised, and its value.
k4_lookup_latest_commit(genv, repoinfo, giturl, response) ==
    IF ~format_ok(giturl)
    THEN [done |-> TRUE, ran |-> FALSE, command |-> <<>>, response |-> <<>>,
          raised |-> TRUE, ret |-> <<>>]
    ELSE [done |-> TRUE, ran |-> TRUE,
          command  |-> curl_command(genv, repoinfo, giturl),
          response |-> response,
          raised   |-> ~int_base16_parses(response),
          ret      |-> IF int_base16_parses(response) THEN response ELSE <<>>]

ResponseChars ==
    {"a", "1", "g", "0", "x", "_", "-", "\n", "U+000B", "U+00A0", "U+0661", "U+FF10"}

RECURSIVE StringsUpTo(_, _)
StringsUpTo(chars, n) ==
    IF n = 0 THEN {<<>>}
    ELSE LET shorter == StringsUpTo(chars, n - 1)
         IN  shorter \cup {Append(t, c) : t \in shorter, c \in chars}

ShaExample == <<"a","1","b","2","c","3">>
RateLimited == <<"A","P","I"," ","r","a","t","e"," ","l","i","m","i","t">>

Responses == StringsUpTo(ResponseChars, MaxResponse) \cup {ShaExample, RateLimited}

RepoInfos == {<<"k","e","y","4","h","e","p","/","e","d","m","4","h","e","p">>}

GitUrls == { <<"https://api.github.com/repos/", "%s", "/commits/master">>,
             <<"https://api.github.com/repos/key4hep/edm4hep/commits/master">> }

GithubEnvs == [user : {<<>>, <<"u">>}, token : {<<>>, <<"t">>}]

NoLookup ==
    [done |-> FALSE, ran |-> FALSE, command |-> <<>>, response |-> <<>>,
     raised |-> FALSE, ret |-> <<>>]

Lookup ==
    /\ ~lookup.done
    /\ \E repoinfo \in RepoInfos, giturl \in GitUrls, response \in Responses :
          lookup' = k4_lookup_latest_commit(github_env, repoinfo, giturl, response)
    /\ UNCHANGED <<github_env, renderVars, urlVars, installVars>>

InitCommit ==
    /\ github_env \in GithubEnvs
    /\ lookup = NoLookup
    /\ RenderIdle /\ UrlIdle /\ InstallIdle

NextCommit == Lookup

SpecCommit == InitCommit /\ [][NextCommit]_vars

\* C7: the lookup returns only when the response text parses as a base-16
\* integer, and then returns that text unchanged; for every response that does
\* not parse (the empty one included) it raises and returns nothing. Text made
\* of hex digits only parses, decimal digits of other scripts among them; text
\* with any character that is neither a hex digit, a decimal digit of another
\* script, an underscore, a sign, x, X nor whitespace does not.
C7_ReturnsOnlyHex ==
    (lookup.done /\ lookup.ran) =>
        LET r == lookup.response
            digits == HexDigits \cup {ArabicIndicDigits[d] : d \in 1..10}
                                \cup {FullwidthDigits[d] : d \in 1..10}
            allHex == r # <<>> /\ \A i \in 1..Len(r) : r[i] \in digits
            foreign == \E i \in 1..Len(r) :
                          r[i] \notin digits \cup Whitespace \cup {"_", "+", "-", "x", "X"}
        IN  /\ ~lookup.raised => (int_base16_parses(r) /\ lookup.ret = r)
            /\ ~int_base16_parses(r) => (lookup.raised /\ lookup.ret = <<>>)
            /\ allHex => (~lookup.raised /\ lookup.ret = r)
            /\ (r = <<>> \/ foreign) => lookup.raised

\* C7 witness: the response a1b2c3 came back and was returned as it is.
C7_Witness ==
    /\ lookup.done /\ lookup.ran /\ ~lookup.raised
    /\ lookup.response = ShaExample
    /\ lookup.ret = ShaExample


----------------------------------------------------------------------------
(* ilc_url_for_version                                                     *)

Digit(d) == <<"0","1","2","3","4","5","6","7","8","9">>[d + 1]

\* '%d' % n for n >= 0
RECURSIVE decimal(_)
decimal(n) ==
    IF n < 10 THEN <<Digit(n)>> ELSE Append(decimal(n \div 10), Digit(n % 10))

\* '%02d' % n for n >= 0
fmt_02d(n) ==
    LET d == decimal(n)
    IN  IF Len(d) < 2 THEN [i \in 1..(2 - Len(d)) |-> "0"] \o d ELSE d

\* self.url.rsplit('/', 1)[0]
rsplit_head(url) ==
    IF \A i \in 1..Len(url) : url[i] # "/" THEN url
    ELSE LET last == CHOOSE i \in 1..Len(url) :
                         url[i] = "/" /\ \A j \in (i + 1)..Len(url) : url[j] # "/"
         IN  SubSeq(url, 1, last - 1)

\* mutant of version_str: the patch is never left out
version_str_with_patch(major, minor, patch) ==
    <<"v">> \o fmt_02d(major) \o <<"-">> \o fmt_02d(minor)
            \o <<"-">> \o fmt_02d(patch) \o <<".tar.gz">>

\* lines 147-150
version_str(major, minor, patch) ==
    IF patch = 0
    THEN <<"v">> \o fmt_02d(major) \o <<"-">> \o fmt_02d(minor) \o <<".tar.gz">>
    ELSE <<"v">> \o fmt_02d(major) \o <<"-">> \o fmt_02d(minor)
                 \o <<"-">> \o fmt_02d(patch) \o <<".tar.gz">>

\* `version` is a sequence of one, two or three numbers
ilc_url_for_version(self, version) ==
    LET base_url == rsplit_head(self.url)
        major == version[1]
        minor == IF Len(version) = 1 THEN 0 ELSE version[2]
        patch == IF Len(version) \in {1, 2} THEN 0 ELSE version[3]
    IN  base_url \o <<"/">> \o version_str(major, minor, patch)

VersionNumbers == (0..MaxComponent) \cup {100, 123}

Versions ==
    UNION {[1..n -> VersionNumbers] : n \in 1..3}

\* package urls: http://x/p/f, http://x/p/ and http://x/f.tar.gz
PackageUrls ==
    { <<"h","t","t","p",":","/","/","x","/","p","/","f">>,
      <<"h","t","t","p",":","/","/","x","/","p","/">>,
      <<"h","t","t","p",":","/","/","x","/","f",".","t","a","r",".","g","z">> }

NoUrl == [done |-> FALSE, version |-> <<>>, ret |-> <<>>]

\* Ilcsoftpackage.url_for_version
url_for_version ==
    /\ ~url_res.done
    /\ \E version \in Versions :
          url_res' = [done |-> TRUE, version |-> version,
                      ret |-> ilc_url_for_version(pkg, version)]
    /\ UNCHANGED <<pkg, renderVars, commitVars, installVars>>

InitUrl ==
    /\ pkg \in [url : PackageUrls]
    /\ url_res = NoUrl
    /\ RenderIdle /\ CommitIdle /\ InstallIdle

NextUrl == url_for_version

SpecUrl == InitUrl /\ [][NextUrl]_vars

\* the url up to and without its last `/`
UpToLastSlash(url) ==
    LET slashes == {i \in 1..Len(url) : url[i] = "/"}
        last == CHOOSE i \in slashes : \A j \in slashes : j <= i
    IN  [i \in 1..(last - 1) |-> url[i]]

\* a number below 1000 in at least two digits
TwoDigits(n) ==
    LET d(k) == <<"0","1","2","3","4","5","6","7","8","9">>[k + 1]
    IN  IF n < 100 THEN <<d(n \div 10), d(n % 10)>>
        ELSE <<d(n \div 100), d((n \div 10) % 10), d(n % 10)>>

Component(version, k) == IF Len(version) >= k THEN version[k] ELSE 0

\* C8: for a version of 1, 2 or 3 components, missing ones taken as 0, the
\* result is the package url with its last path segment replaced by
\* vMM-mm.tar.gz when the patch is 0 and by vMM-mm-pp.tar.gz otherwise, each
\* number in at least two digits; (1,2) and (1,2,0) give .../v01-02.tar.gz and
\* (1,2,3) gives .../v01-02-03.tar.gz.
C8_IlcUrl ==
    url_res.done =>
        LET v     == url_res.version
            head  == UpToLastSlash(pkg.url) \o <<"/", "v">>
            MMmm  == TwoDigits(Component(v, 1)) \o <<"-">> \o TwoDigits(Component(v, 2))
        IN  /\ url_res.ret =
                   IF Component(v, 3) = 0
                   THEN head \o MMmm \o <<".tar.gz">>
                   ELSE head \o MMmm \o <<"-">> \o TwoDigits(Component(v, 3))
                             \o <<".tar.gz">>
            /\ v \in {<<1, 2>>, <<1, 2, 0>>} =>
                   url_res.ret = UpToLastSlash(pkg.url)
                                 \o <<"/", "v", "0", "1", "-", "0", "2", ".tar.gz">>
            /\ v = <<1, 2, 3>> =>
                   url_res.ret = UpToLastSlash(pkg.url)
                                 \o <<"/", "v", "0", "1", "-", "0", "2", "-", "0", "3",
                                      ".tar.gz">>

\* C8 witness: version (1,2,0) translated, the patch left out.
C8_Witness ==
    /\ url_res.done
    /\ url_res.version = <<1, 2, 0>>
    /\ url_res.ret = <<"h","t","t","p",":","/","/","x","/","p","/",
                       "v", "0", "1", "-", "0", "2", ".tar.gz">>


----------------------------------------------------------------------------
(* The file system, as far as install_setup_script touches it.             *)

\* os.path.dirname
dirname(path) ==
    LET slashes == {i \in 1..Len(path) : path[i] = "/"}
        i    == IF slashes = {} THEN 0
                ELSE CHOOSE k \in slashes : \A j \in slashes : j <= k
        head == SubSeq(path, 1, i)
        RECURSIVE strip_slashes(_)
        strip_slashes(h) ==
            IF h # <<>> /\ h[Len(h)] = "/"
            THEN strip_slashes(SubSeq(h, 1, Len(h) - 1)) ELSE h
    IN  IF head # <<>> /\ \E k \in 1..Len(head) : head[k] # "/"
        THEN strip_slashes(head) ELSE head

\* os.path.join(a, b)
path_join(a, b) ==
    IF b # <<>> /\ b[1] = "/" THEN b
    ELSE IF a = <<>> \/ a[Len(a)] = "/" THEN a \o b
    ELSE a \o <<"/">> \o b

SetupName == <<"s","e","t","u","p",".","s","h">>

\* the bytes one element of a text takes in a file; "b*9000" and "b*8052"
\* are runs of 9000 and of 8052 letters b
token_len(c) ==
    CASE c = "export " -> 7
      [] c = "b*9000" -> 9000
      [] c = "b*8052" -> 8052
      [] c \in {"CC", "FC"} -> 2
      [] c \in {"CXX", "F77"} -> 3
      [] c = "PATH" -> 4
      [] c = "SPACK_LOADED_HASHES" -> 19
      [] OTHER -> 1

\* len(text.encode())
RECURSIVE byte_len(_)
byte_len(text) ==
    IF text = <<>> THEN 0 ELSE token_len(Head(text)) + byte_len(Tail(text))

\* The content of a regular file is a sequence of extents: bytes from..upto-1
\* of the file are bytes from..upto-1 of a text that was written to it (zero
\* bytes, where the text is <<>>). Its size is where the last extent ends.
FileOf(extents) ==
    [kind |-> "file", content |-> extents,
     size |-> IF extents = <<>> THEN 0 ELSE extents[Len(extents)].upto,
     target |-> <<>>]

Absent          == [kind |-> "absent", content |-> <<>>, size |-> 0, target |-> <<>>]
Directory       == [kind |-> "dir",    content |-> <<>>, size |-> 0, target |-> <<>>]
SymbolicLink(t) == [kind |-> "link",   content |-> <<>>, size |-> 0, target |-> t]

\* a file that holds the text c
RegularFile(c)  ==
    FileOf(IF c = <<>> THEN <<>>
           ELSE <<[text |-> c, from |-> 0, upto |-> byte_len(c)]>>)

\* no limit on the size of a file
Unlimited == -1

\* a file system of blocks of 4096 bytes whose files can grow: st_blksize
\* and the size a file can grow to
GrowingDisk == [limit |-> Unlimited, blksize |-> 4096]

\* TextIOWrapper: f.write keeps the text until this many bytes are pending
ChunkSize == 8192

\* the buffer sizes of the BufferedWriter under f tried: open() takes the
\* st_blksize of the file
BlockSizes == {4096, 8192}

\* os.write of k bytes to a file of `size` bytes that can grow to `limit`:
\* the bytes written; 0 when none can be, and then os.write raises
raw_write(size, k, limit) ==
    IF limit = Unlimited \/ size + k <= limit THEN k
    ELSE IF limit > size THEN limit - size
    ELSE 0

\* the loops of BufferedWriter.write and BufferedWriter.flush: os.write is
\* called until no more than `keep` bytes remain, and these stay in the buffer
RECURSIVE raw_write_loop(_, _, _, _)
raw_write_loop(written, remaining, keep, limit) ==
    IF remaining <= keep
    THEN [ok |-> TRUE, written |-> written, pending |-> 0, held |-> remaining]
    ELSE IF raw_write(written, remaining, limit) = 0
    THEN [ok |-> FALSE, written |-> written, pending |-> 0, held |-> 0]
    ELSE raw_write_loop(written + raw_write(written, remaining, limit),
                        remaining - raw_write(written, remaining, limit),
                        keep, limit)

\* BufferedWriter.write of n bytes to an empty buffer over an empty file: what
\* fits the buffer is copied to it, more is written to the file
buffered_write(n, device) ==
    IF n <= device.blksize
    THEN [ok |-> TRUE, written |-> 0, pending |-> 0, held |-> n]
    ELSE raw_write_loop(0, n, device.blksize, device.limit)

\* f.write of a text of n bytes: it is handed to the BufferedWriter once
\* ChunkSize bytes are pending
text_write(n, device) ==
    IF n >= ChunkSize THEN buffered_write(n, device)
    ELSE [ok |-> TRUE, written |-> 0, pending |-> n, held |-> 0]

\* f.close(): the pending text is handed to the BufferedWriter and its buffer
\* is flushed to the file, to which f has written `written` bytes
text_close(written, pending, held, device) ==
    IF pending > 0
    THEN IF buffered_write(pending, device).ok
         THEN raw_write_loop(buffered_write(pending, device).written,
                             buffered_write(pending, device).held,
                             0, device.limit)
         ELSE buffered_write(pending, device)
    ELSE raw_write_loop(written, held, 0, device.limit)

KindOf(files, path) ==
    IF path \in DOMAIN files THEN files[path].kind ELSE "absent"

\* the file a path names once the symbolic links at it are followed; <<>>
\* when they loop
RECURSIVE follow(_, _, _)
follow(files, path, seen) ==
    IF KindOf(files, path) # "link" THEN path
    ELSE IF path \in seen THEN <<>>
    ELSE follow(files, files[path].target, seen \cup {path})

\* os.path.exists: follows a symbolic link to what it names; False on a
\* loop of links
exists(files, path) ==
    KindOf(files, follow(files, path, {})) # "absent"

\* mutant of islink: a link whose target is missing is not seen
islink_to_existing(files, path) ==
    KindOf(files, path) = "link" /\ exists(files, path)

\* os.path.islink
islink(files, path) == KindOf(files, path) = "link"

\* One system call: it fails when the state of the files makes it
\* impossible, and it can fail for reasons of its own (`fault`: permissions,
\* a full or read-only disk). A call that fails leaves the files alone.
syscall(files, fault, possible, files_after) ==
    [ok    |-> possible /\ ~fault,
     files |-> IF possible /\ ~fault THEN files_after ELSE files]

\* os.mkdir
mkdir(files, fault, path) ==
    syscall(files, fault,
            /\ path \in DOMAIN files
            /\ KindOf(files, path) = "absent"
            /\ KindOf(files, dirname(path)) = "dir",
            [files EXCEPT ![path] = Directory])

\* the directories os.makedirs(name) finds missing on its way up, topmost
\* first, `name` itself last
RECURSIVE makedirs_missing(_, _)
makedirs_missing(files, name) ==
    LET head == dirname(name)
    IN  (IF head # <<>> /\ head # name /\ ~exists(files, head)
         THEN makedirs_missing(files, head) ELSE <<>>) \o <<name>>

\* os.remove
remove(files, fault, path) ==
    syscall(files, fault,
            KindOf(files, path) \in {"file", "link"},
            [files EXCEPT ![path] = Absent])

\* os.symlink(target, path)
symlink(files, fault, target, path) ==
    syscall(files, fault,
            /\ path \in DOMAIN files
            /\ KindOf(files, path) = "absent"
            /\ KindOf(files, dirname(path)) = "dir",
            [files EXCEPT ![path] = SymbolicLink(target)])

\* open(path, "w"): the file the path names is there and empty
open_w(files, fault, path) ==
    syscall(files, fault,
            /\ follow(files, path, {}) \in DOMAIN files
            /\ KindOf(files, follow(files, path, {})) \in {"absent", "file"}
            /\ KindOf(files, dirname(follow(files, path, {}))) = "dir",
            [files EXCEPT ![follow(files, path, {})] = RegularFile(<<>>)])

\* os.write through an open file: bytes from..upto-1 of `text` are put at
\* from..upto-1 of the file at `path`, over what it holds there; what the file
\* holds before and after them stays. Nothing is seen of it when the file has
\* been removed (path = <<>>).
pwrite(files, path, text, from, upto) ==
    IF upto <= from \/ KindOf(files, path) # "file" THEN files
    ELSE LET old   == files[path].content
             Below(e) == e.from < from
             Above(e) == e.upto > upto
             below == SelectSeq(old, Below)
             above == SelectSeq(old, Above)
             hole  == IF files[path].size < from
                      THEN <<[text |-> <<>>, from |-> files[path].size, upto |-> from]>>
                      ELSE <<>>
             joinb == below # <<>> /\ hole = <<>> /\ below[Len(below)].text = text
             joina == above # <<>> /\ above[1].text = text
         IN  [files EXCEPT ![path] =
                 FileOf([i \in 1..(Len(below) - (IF joinb THEN 1 ELSE 0)) |->
                            [below[i] EXCEPT !.upto = IF @ > from THEN from ELSE @]]
                        \o hole
                        \o <<[text |-> text,
                              from |-> IF joinb THEN below[Len(below)].from ELSE from,
                              upto |-> IF joina THEN above[1].upto ELSE upto]>>
                        \o [i \in 1..(Len(above) - (IF joina THEN 1 ELSE 0)) |->
                               [above[i + (IF joina THEN 1 ELSE 0)] EXCEPT
                                   !.from = IF @ < upto THEN upto ELSE @]])]


----------------------------------------------------------------------------
(* The stack being installed: specs, their dependencies, compiler.         *)

Nodes == {1, 2, 3}

HashesVar == "SPACK_LOADED_HASHES"

None    == [none |-> TRUE,  v |-> <<>>]
Some(v) == [none |-> FALSE, v |-> v]

\* Python truth of an optional string
truthy(x) == ~x.none /\ x.v # <<>>

\* dep.dag_hash()
DagHash(n) == <<"h", Digit(n)>>

\* the install prefix of a spec
Prefix(n) == <<"/", "o", Digit(n)>>

\* what a package usually adds: its bin directory in front of PATH
BinDir(n) == Prefix(n) \o <<"/", "b">>
PlainMods(n) == <<PrependPathOp("PATH", BinDir(n))>>

Gcc == <<"/","c","/","g","c","c">>
Gxx == <<"/","c","/","g","+","+">>

\* the direct dependencies of a spec in the order traverse() takes them
children_sorted(deps, n) ==
    SelectSeq(<<1, 2, 3>>, LAMBDA c : c \in deps[n])

\* spec.traverse(order='post'): depth first, every spec once, a spec after
\* the specs it depends on. `frames` is the stack of the specs being visited,
\* each with the children still to be looked at.
Frame(deps, n) == [n |-> n, cs |-> children_sorted(deps, n)]

RECURSIVE post_visit(_, _, _, _)
post_visit(deps, frames, seen, out) ==
    IF frames = <<>> THEN out
    ELSE LET top == Head(frames)
         IN  IF top.cs = <<>>
             THEN post_visit(deps, Tail(frames), seen, Append(out, top.n))
             ELSE LET c    == Head(top.cs)
                      rest == <<[n |-> top.n, cs |-> Tail(top.cs)]>> \o Tail(frames)
                  IN  IF c \in seen
                      THEN post_visit(deps, rest, seen, out)
                      ELSE post_visit(deps, <<Frame(deps, c)>> \o rest,
                                      seen \cup {c}, out)

\* the same walk yielding a spec when it is first met
RECURSIVE pre_visit(_, _, _, _)
pre_visit(deps, frames, seen, out) ==
    IF frames = <<>> THEN out
    ELSE LET top == Head(frames)
         IN  IF top.cs = <<>>
             THEN pre_visit(deps, Tail(frames), seen, out)
             ELSE LET c    == Head(top.cs)
                      rest == <<[n |-> top.n, cs |-> Tail(top.cs)]>> \o Tail(frames)
                  IN  IF c \in seen
                      THEN pre_visit(deps, rest, seen, out)
                      ELSE pre_visit(deps, <<Frame(deps, c)>> \o rest,
                                     seen \cup {c}, Append(out, c))

\* mutant of traverse_post: a spec before the specs it depends on
traverse_pre(deps, root) ==
    pre_visit(deps, <<Frame(deps, root)>>, {root}, <<root>>)

traverse_post(deps, root) ==
    post_visit(deps, <<Frame(deps, root)>>, {root}, <<>>)

\* lines 166-176: the compiler's part of the log
compiler_mods(compiler) ==
    (IF truthy(compiler.cc)  THEN <<SetEnvOp("CC",  compiler.cc.v)>>  ELSE <<>>)
    \o (IF truthy(compiler.cxx) THEN <<SetEnvOp("CXX", compiler.cxx.v)>> ELSE <<>>)
    \o (IF truthy(compiler.f77) THEN <<SetEnvOp("F77", compiler.f77.v)>> ELSE <<>>)
    \o (IF truthy(compiler.fc)  THEN <<SetEnvOp("FC",  compiler.fc.v)>>  ELSE <<>>)
    \o compiler.custom
    \o <<PrependPathOp("PATH", dirname(compiler.cxx.v))>>

\* lines 182-183 for one visited spec
visit_mods(stack, dep) ==
    stack.mods[dep] \o <<PrependPathOp(HashesVar, DagHash(dep))>>

\* lines 181-183
RECURSIVE walk_mods(_, _)
walk_mods(stack, order) ==
    IF order = <<>> THEN <<>>
    ELSE visit_mods(stack, Head(order)) \o walk_mods(stack, Tail(order))

----------------------------------------------------------------------------
(* install_setup_script, one system call at a time. The installs of        *)
(* different specs run in processes of their own and share the files; the  *)
(* installs of one spec follow one another.                                *)

SymlinkWarning == <<"Could not create symlink">>

\* whether the directory `path` exists or can be made by os.makedirs
RECURSIVE creatable(_, _)
creatable(files, path) ==
    /\ path \in DOMAIN files
    /\ \/ KindOf(files, path) = "dir"
       \/ KindOf(files, path) = "absent" /\ creatable(files, dirname(path))

\* a call between lines 196 and 201
TryPcs == {"makedirs", "mkdir", "exists", "islink", "remove", "symlink"}

\* The install of one spec: where its call is (pc), the local variables of
\* the call (visited, log, script, todo: the directories os.makedirs has yet
\* to make; fd: the path of the file that f has open, <<>> once the file
\* has been removed, offset: the bytes f has written to it, pending: the
\* bytes f has yet to hand down, held: the bytes in the buffer under f), how the last call ended (done, raised, warnings), and for the
\* record: link_failed (the except of line 202 was entered), write_failed,
\* injected (a system call of the call failed for reasons of its own), raced
\* (another install changed the files while the call was between lines 196
\* and 201), newest (the symlink was last made by this install), before
\* (what line 196 found at the symlink path and above it).
NoInst ==
    [pc |-> "idle", done |-> FALSE, raised |-> FALSE, warnings |-> <<>>,
     link_failed |-> FALSE, write_failed |-> FALSE, injected |-> FALSE,
     raced |-> FALSE, newest |-> FALSE,
     visited |-> <<>>, log |-> <<>>, script |-> NoScript, todo |-> <<>>,
     fd |-> <<>>, offset |-> 0, pending |-> 0, held |-> 0,
     before |-> [entry |-> "none", parent |-> "none"]]

\* dependency graphs over three specs (spec -> the specs it depends on)
DagTriangle == (1 :> {2, 3} @@ 2 :> {3} @@ 3 :> {})
DagCross    == (1 :> {2, 3} @@ 2 :> {} @@ 3 :> {2})
DagUp       == (1 :> {2} @@ 2 :> {} @@ 3 :> {1, 2})
DagPair     == (1 :> {} @@ 2 :> {1} @@ 3 :> {})

PlainPackages == [n \in Nodes |-> PlainMods(n)]

GnuCompiler ==
    [cc |-> Some(Gcc), cxx |-> Some(Gxx), f77 |-> None, fc |-> None, custom |-> <<>>]

\* a compiler without a C compiler, whose setup_custom_environment adds a path
CxxOnlyCompiler ==
    [cc |-> None, cxx |-> Some(Gxx), f77 |-> None, fc |-> None,
     custom |-> <<PrependPathOp("PATH", <<"/","c","/","l">>)>>]

\* a compiler without a C++ compiler
NoCxxCompiler ==
    [cc |-> Some(Gcc), cxx |-> None, f77 |-> None, fc |-> None, custom |-> <<>>]

\* the stacks tried: graph, the specs install_setup_script is called for, what
\* each package adds to the environment, compiler
PlainStack ==
    [deps |-> DagTriangle, roots |-> {1, 2}, mods |-> PlainPackages,
     compiler |-> GnuCompiler]

\* package 1 has a directory with a name of 9000 characters: a script of
\* 9140 bytes
LongStack ==
    [PlainStack EXCEPT
        !.mods = [PlainPackages EXCEPT
                     ![1] = Append(@, PrependPathOp("PATH", Prefix(1) \o <<"/", "b*9000">>))]]

\* package 1 has a directory with a name of 8052 characters: a script of
\* 8192 bytes
EdgeStack ==
    [PlainStack EXCEPT
        !.mods = [PlainPackages EXCEPT
                     ![1] = Append(@, PrependPathOp("PATH", Prefix(1) \o <<"/", "b*8052">>))]]

Stacks ==
    { PlainStack,
      [deps |-> DagCross, roots |-> {1, 3}, mods |-> PlainPackages,
       compiler |-> CxxOnlyCompiler],
      \* package 1 unsets the loaded-hashes variable
      [deps |-> DagUp, roots |-> {3, 1},
       mods |-> [PlainPackages EXCEPT ![1] = Append(@, UnsetEnvOp(HashesVar))],
       compiler |-> CxxOnlyCompiler],
      \* package 2 sets the loaded-hashes variable
      [deps |-> DagTriangle, roots |-> {1, 3},
       mods |-> [PlainPackages EXCEPT ![2] = Append(@, SetEnvOp(HashesVar, DagHash(2)))],
       compiler |-> CxxOnlyCompiler],
      \* package 1 prepends the hash of its dependency 3 itself
      [deps |-> DagTriangle, roots |-> {1, 2},
       mods |-> [PlainPackages EXCEPT
                    ![1] = Append(@, PrependPathOp(HashesVar, DagHash(3)))],
       compiler |-> CxxOnlyCompiler],
      [deps |-> DagPair, roots |-> {2, 3}, mods |-> PlainPackages,
       compiler |-> NoCxxCompiler] }

\* the variable names a stack can put into a log
StackNames(stack) ==
    names_of(compiler_mods(stack.compiler) \o walk_mods(stack, <<1, 2, 3>>))

LinkDir2 == <<"/","d">>
LinkDir  == <<"/","d","/","e">>
LinkPath == <<"/","d","/","e","/","l">>
Gone     == <<"/","g">>
BareName == <<"l">>

FsPaths ==
    {<<"/">>, LinkDir2, LinkDir, LinkPath, Gone}
    \cup {Prefix(n) : n \in Nodes}
    \cup {path_join(Prefix(n), SetupName) : n \in Nodes}

\* the prefixes exist, nothing else does
BareFiles ==
    [path \in FsPaths |->
        IF path = <<"/">> \/ path \in {Prefix(n) : n \in Nodes}
        THEN Directory ELSE Absent]

WithDirs == [BareFiles EXCEPT ![LinkDir2] = Directory, ![LinkDir] = Directory]

\* what can be at and above the symlink path before the first call, and
\* what can be at <prefix>/setup.sh: a symbolic link to the symlink path, or
\* to the setup.sh of another prefix
InitialFiles ==
    { BareFiles,
      [BareFiles EXCEPT ![LinkDir2] = Directory],
      [BareFiles EXCEPT ![LinkDir2] = RegularFile(<<>>)],
      WithDirs,
      [WithDirs EXCEPT ![LinkPath] = RegularFile(<<>>)],
      [WithDirs EXCEPT ![LinkPath] = SymbolicLink(Gone)],
      [WithDirs EXCEPT ![LinkPath] = SymbolicLink(LinkDir2)],
      [WithDirs EXCEPT ![LinkPath] = Directory],
      [WithDirs EXCEPT ![path_join(Prefix(1), SetupName)] = SymbolicLink(LinkPath)],
      [WithDirs EXCEPT ![path_join(Prefix(1), SetupName)] =
                           SymbolicLink(path_join(Prefix(2), SetupName))] }

\* <prefix>/setup.sh of a spec
SetupScriptOf(n) == path_join(Prefix(n), SetupName)

\* the install of `root` moves to `mine`; when it changed the files at the
\* symlink path, the installs between lines 196 and 201 have been raced, and
\* when it made the symlink, it is the newest to have done so
moved(root, mine, changed, linked) ==
    [q \in DOMAIN inst |->
        IF q = root THEN mine
        ELSE [inst[q] EXCEPT
                 !.raced  = @ \/ (changed /\ inst[q].pc \in TryPcs),
                 !.newest = @ /\ ~linked]]

\* the except of lines 202-203
caught(state, fault) ==
    [state EXCEPT !.pc = "close", !.link_failed = TRUE,
                  !.injected = @ \/ fault, !.todo = <<>>,
                  !.warnings = Append(@, SymlinkWarning)]

\* the call leaves through an exception
raising(state, fault) ==
    [state EXCEPT !.pc = "idle", !.done = TRUE, !.raised = TRUE,
                  !.injected = @ \/ fault, !.todo = <<>>,
                  !.fd = <<>>, !.offset = 0, !.pending = 0, !.held = 0]

\* the file at `path` has been removed: the calls that have it open keep it,
\* and what they write to it is no longer seen
detached(states, path) ==
    [q \in DOMAIN states |->
        IF states[q].fd = path THEN [states[q] EXCEPT !.fd = <<>>] ELSE states[q]]

\* lines 154-187: the log of the compiler and of the walk, its rendering,
\* and open(<prefix>/setup.sh, "w")
install_setup_script ==
    /\ \E root \in db.roots :
          /\ inst[root].pc = "idle"
          /\ LET fresh == [NoInst EXCEPT !.newest = inst[root].newest]
             IN  IF db.compiler.cxx.none
                 THEN \* os.path.dirname(None) raises at line 176
                      /\ inst' = moved(root, raising(fresh, FALSE), FALSE, FALSE)
                      /\ fs' = fs
                 ELSE \E visited \in {traverse_post(db.deps, root)} :
                      \E log \in {compiler_mods(db.compiler) \o walk_mods(db, visited)} :
                      \E r \in {k4_generate_setup_script(log, hashseed)} :
                      \E fault \in BOOLEAN :
                      \E opened \in {open_w(fs, fault, SetupScriptOf(root))} :
                          LET called ==
                                  [fresh EXCEPT
                                      !.visited = visited, !.log = log,
                                      !.warnings = r.warnings,
                                      !.script = [done |-> TRUE, ret |-> r.ret,
                                                  warnings |-> r.warnings,
                                                  new_env |-> r.new_env,
                                                  env_set_not_prepend |->
                                                      r.env_set_not_prepend]]
                          IN  /\ fs' = opened.files
                              /\ inst' = moved(root,
                                               IF opened.ok
                                               THEN [called EXCEPT
                                                        !.pc = "write",
                                                        !.fd = follow(fs, SetupScriptOf(root), {})]
                                               ELSE raising(called, fault),
                                               \E path \in DOMAIN fs \ {SetupScriptOf(root)} :
                                                   KindOf(opened.files, path) # KindOf(fs, path),
                                               FALSE)
    /\ UNCHANGED <<db, environ, hashseed, disk, renderVars, commitVars, urlVars>>

\* line 188, f.write(cmds): a text shorter than ChunkSize stays pending in f;
\* a longer one goes to the BufferedWriter, which writes to the open file
\* what its buffer cannot take. When the file cannot grow, either the call
\* raises here, or the rest stays in the buffer and the call goes on.
write ==
    /\ \E root \in db.roots :
          /\ inst[root].pc = "write"
          /\ \E r \in {text_write(byte_len(inst[root].script.ret), disk)} :
                /\ fs' = pwrite(fs, inst[root].fd, inst[root].script.ret,
                                0, r.written)
                /\ inst' = moved(root,
                                 IF r.ok
                                 THEN [inst[root] EXCEPT !.pc = "environ",
                                                         !.offset = r.written,
                                                         !.pending = r.pending,
                                                         !.held = r.held]
                                 ELSE [raising(inst[root], FALSE) EXCEPT
                                          !.write_failed = TRUE],
                                 FALSE, FALSE)
    /\ UNCHANGED <<db, environ, hashseed, disk, renderVars, commitVars, urlVars>>

\* lines 192-196: the symlink path is read, and if there is one, whether its
\* directory exists
environ_get ==
    /\ \E root \in db.roots :
          /\ inst[root].pc = "environ"
          /\ inst' = moved(root,
                 IF environ = <<>>
                 THEN [inst[root] EXCEPT !.pc = "close"]
                 ELSE [inst[root] EXCEPT
                          !.pc = IF exists(fs, dirname(environ))
                                 THEN "exists" ELSE "makedirs",
                          !.before =
                              [entry  |-> KindOf(fs, environ),
                               parent |-> IF exists(fs, dirname(environ)) THEN "dir"
                                          ELSE IF creatable(fs, dirname(environ))
                                          THEN "missing" ELSE "blocked"]],
                 FALSE, FALSE)
    /\ UNCHANGED <<db, environ, hashseed, fs, disk, renderVars, commitVars, urlVars>>

\* line 197, os.makedirs on its way up: which directories are missing
makedirs ==
    /\ \E root \in db.roots :
          /\ inst[root].pc = "makedirs"
          /\ inst' = moved(root,
                           [inst[root] EXCEPT
                               !.pc = "mkdir",
                               !.todo = makedirs_missing(fs, dirname(environ))],
                           FALSE, FALSE)
    /\ UNCHANGED <<db, environ, hashseed, fs, disk, renderVars, commitVars, urlVars>>

\* line 197, os.makedirs on its way down: one os.mkdir. That a directory
\* above the last one is there by now is passed over; any other failure
\* goes to the except.
os_mkdir ==
    /\ \E root \in db.roots :
          /\ inst[root].pc = "mkdir"
          /\ \E fault \in BOOLEAN :
             \E made \in {mkdir(fs, fault, Head(inst[root].todo))} :
                LET state == inst[root]
                    path  == Head(state.todo)
                    rest  == Tail(state.todo)
                    on    == [state EXCEPT
                                 !.todo = rest,
                                 !.pc = IF rest = <<>> THEN "exists" ELSE "mkdir"]
                    there == ~fault /\ KindOf(fs, path) # "absent"
                IN  /\ fs' = made.files
                    /\ inst' = moved(root,
                                     IF made.ok \/ (there /\ rest # <<>>)
                                     THEN on ELSE caught(state, fault),
                                     made.ok, FALSE)
    /\ UNCHANGED <<db, environ, hashseed, disk, renderVars, commitVars, urlVars>>

\* line 199, os.path.exists(symlink_path)
path_exists ==
    /\ \E root \in db.roots :
          /\ inst[root].pc = "exists"
          /\ inst' = moved(root,
                           [inst[root] EXCEPT
                               !.pc = IF exists(fs, environ)
                                      THEN "remove" ELSE "islink"],
                           FALSE, FALSE)
    /\ UNCHANGED <<db, environ, hashseed, fs, disk, renderVars, commitVars, urlVars>>

\* line 199, os.path.islink(symlink_path)
path_islink ==
    /\ \E root \in db.roots :
          /\ inst[root].pc = "islink"
          /\ inst' = moved(root,
                           [inst[root] EXCEPT
                               !.pc = IF islink(fs, environ)
                                      THEN "remove" ELSE "symlink"],
                           FALSE, FALSE)
    /\ UNCHANGED <<db, environ, hashseed, fs, disk, renderVars, commitVars, urlVars>>

\* line 200
os_remove ==
    /\ \E root \in db.roots :
          /\ inst[root].pc = "remove"
          /\ \E fault \in BOOLEAN :
             \E removed \in {remove(fs, fault, environ)} :
                /\ fs' = removed.files
                /\ inst' = (IF removed.ok
                            THEN detached(moved(root,
                                                [inst[root] EXCEPT !.pc = "symlink"],
                                                TRUE, FALSE),
                                          environ)
                            ELSE moved(root, caught(inst[root], fault),
                                       FALSE, FALSE))
    /\ UNCHANGED <<db, environ, hashseed, disk, renderVars, commitVars, urlVars>>

\* line 201
os_symlink ==
    /\ \E root \in db.roots :
          /\ inst[root].pc = "symlink"
          /\ \E fault \in BOOLEAN :
             \E linked \in {symlink(fs, fault, SetupScriptOf(root), environ)} :
                /\ fs' = linked.files
                /\ inst' = moved(root,
                                 IF linked.ok
                                 THEN [inst[root] EXCEPT !.pc = "close",
                                                         !.newest = TRUE]
                                 ELSE caught(inst[root], fault),
                                 linked.ok, linked.ok)
    /\ UNCHANGED <<db, environ, hashseed, disk, renderVars, commitVars, urlVars>>

\* the end of the with block of line 187, after the try: what is pending in
\* f and held in its buffer is flushed to the open file, f is closed and the
\* call returns; if the file cannot grow that far the flush fails and the
\* call raises
close ==
    /\ \E root \in db.roots :
          /\ inst[root].pc = "close"
          /\ \E r \in {text_close(inst[root].offset, inst[root].pending,
                                  inst[root].held, disk)} :
                /\ fs' = pwrite(fs, inst[root].fd, inst[root].script.ret,
                                inst[root].offset, r.written)
                /\ inst' = moved(root,
                                 IF r.ok
                                 THEN [inst[root] EXCEPT
                                          !.pc = "idle", !.done = TRUE,
                                          !.fd = <<>>, !.offset = 0,
                                          !.pending = 0, !.held = 0]
                                 ELSE [raising(inst[root], FALSE) EXCEPT
                                          !.write_failed = TRUE],
                                 FALSE, FALSE)
    /\ UNCHANGED <<db, environ, hashseed, disk, renderVars, commitVars, urlVars>>

SortedNames(stack) ==
    SelectSeq(AllNamesSorted, LAMBDA n : n \in StackNames(stack))

\* the setup script of a spec of a stack
ScriptOf(stack, root) ==
    k4_generate_setup_script(
        compiler_mods(stack.compiler)
            \o walk_mods(stack, traverse_post(stack.deps, root)),
        SortedNames(stack)).ret

\* the install of one spec of every stack in every iteration order, the
\* installs of two specs of every stack in one order, the installs of two
\* specs of one stack on every state of the files, all with files that can
\* grow; and the install of one spec with a script shorter than ChunkSize, of
\* one with a script of ChunkSize bytes and of one with a longer script, on
\* files of the small size limits and of the limits around the script's size
\* and around what the buffer leaves of it
InitInstall ==
    /\ \/ /\ db \in {[stack EXCEPT !.roots = {root}] :
                        stack \in Stacks, root \in {1, 3}}
          /\ hashseed \in Perms(StackNames(db))
          /\ environ = LinkPath /\ fs = WithDirs /\ disk = GrowingDisk
       \/ /\ db \in Stacks
          /\ hashseed = SortedNames(db)
          /\ environ = LinkPath /\ fs = WithDirs /\ disk = GrowingDisk
       \/ /\ db = PlainStack
          /\ hashseed = SortedNames(db)
          /\ disk = GrowingDisk
          /\ \/ environ = LinkPath /\ fs \in InitialFiles \ {WithDirs}
             \/ environ \in {<<>>, BareName} /\ fs = WithDirs
       \/ /\ db \in {[stack EXCEPT !.roots = {1}] :
                        stack \in {PlainStack, EdgeStack, LongStack}}
          /\ hashseed = SortedNames(db)
          /\ environ = LinkPath /\ fs = WithDirs
          /\ \E n \in {byte_len(ScriptOf(db, 1))} :
                disk \in [limit : {Unlimited} \cup (0..MaxFileSize)
                                  \cup {k \in {n - b - 1 : b \in BlockSizes}
                                              \cup {n - b : b \in BlockSizes}
                                              \cup {n - 1, n} : k >= 0},
                          blksize : BlockSizes]
    /\ inst = [root \in db.roots |-> NoInst]
    /\ RenderIdle /\ CommitIdle /\ UrlIdle

NextInstall ==
    \/ install_setup_script
    \/ write
    \/ environ_get
    \/ makedirs
    \/ os_mkdir
    \/ path_exists
    \/ path_islink
    \/ os_remove
    \/ os_symlink
    \/ close

SpecInstall == InitInstall /\ [][NextInstall]_vars

----------------------------------------------------------------------------
(* Claims about install_setup_script                                       *)

\* no call is under way
Quiescent == \A root \in DOMAIN inst : inst[root].pc = "idle"

\* every call that has returned did so without a failed system call
NothingFailed ==
    /\ \E root \in DOMAIN inst : inst[root].done
    /\ \A root \in DOMAIN inst :
          inst[root].done => (~inst[root].raised /\ ~inst[root].link_failed)

\* C5: with the environment variable holding a non-empty path P: once the
\* calls made have returned, none with a failed system call, P is a symlink
\* to <prefix>/setup.sh of the call that made the symlink last (the most
\* recent call, when one call follows another) and the parent of P is a
\* directory; and the symlink handling of a call does not fail when it found
\* P absent, a file or a symlink (dangling or left by an earlier call) and
\* the parent of P there or possible to create, unless a system call fails
\* for reasons of its own or another install changes the files meanwhile.
C5_SymlinkPointsToLatest ==
    environ # <<>> =>
        /\ (Quiescent /\ NothingFailed) =>
              /\ \E root \in DOMAIN inst :
                    /\ inst[root].done /\ inst[root].newest
                    /\ fs[environ] = SymbolicLink(SetupScriptOf(root))
              /\ KindOf(fs, dirname(environ)) = "dir"
        /\ \A root \in DOMAIN inst :
              ( /\ inst[root].before.entry \in {"absent", "file", "link"}
                /\ inst[root].before.parent \in {"dir", "missing"}
                /\ ~inst[root].injected
                /\ ~inst[root].raced )
                 => ~inst[root].link_failed

\* C5 witness: two installs have returned, one after the other without a
\* failure; the later found the symlink of the earlier at P and replaced it.
C5_Witness ==
    /\ environ = LinkPath
    /\ Quiescent /\ NothingFailed
    /\ \E early, late \in DOMAIN inst :
          /\ early # late
          /\ inst[early].done /\ inst[late].done
          /\ inst[late].newest /\ ~inst[late].raced
          /\ inst[late].before.entry = "link"
          /\ fs[LinkPath] = SymbolicLink(SetupScriptOf(late))
          /\ fs[SetupScriptOf(early)] = RegularFile(inst[early].script.ret)

WarnedOnce(warnings) ==
    /\ warnings # <<>>
    /\ warnings[Len(warnings)] = SymlinkWarning
    /\ Cardinality({i \in 1..Len(warnings) : warnings[i] = SymlinkWarning}) = 1

WrittenInFull(root) ==
    /\ inst[root].log # <<>>
    /\ fs[SetupScriptOf(root)] =
           RegularFile(k4_generate_setup_script(inst[root].log, hashseed).ret)
    /\ Len(ScriptLines(k4_generate_setup_script(inst[root].log, hashseed).ret)) > 0

\* C6 as stated: a call in which a step of the symlink handling failed
\* logged the warning, returned without raising, and left <prefix>/setup.sh
\* holding the whole rendering of the log.
C6_AsStated ==
    \A root \in DOMAIN inst :
        (inst[root].done /\ inst[root].link_failed) =>
            /\ WarnedOnce(inst[root].warnings)
            /\ ~inst[root].raised
            /\ WrittenInFull(root)

\* the specs a spec depends on, directly or not, and itself
Reachable(deps, root) ==
    LET step(S) == S \cup UNION {deps[n] : n \in S}
    IN  step(step(step({root})))

IsPostOrder(deps, root, visited) ==
    /\ {visited[i] : i \in 1..Len(visited)} = Reachable(deps, root)
    /\ Len(visited) = Cardinality(Reachable(deps, root))
    /\ visited[Len(visited)] = root
    /\ \A i, j \in 1..Len(visited) : visited[j] \in deps[visited[i]] => j < i

\* the log the walk is to leave: for each spec in turn its own modifications,
\* then the prepend of its hash
RECURSIVE WalkLog(_, _)
WalkLog(stack, visited) ==
    IF visited = <<>> THEN <<>>
    ELSE stack.mods[Head(visited)]
         \o <<PrependPathOp(HashesVar, DagHash(Head(visited)))>>
         \o WalkLog(stack, Tail(visited))

LogEndsWith(log, tail) ==
    /\ Len(log) >= Len(tail)
    /\ SubSeq(log, Len(log) - Len(tail) + 1, Len(log)) = tail

Touches(mods, kinds) ==
    \E i \in 1..Len(mods) : mods[i].name = HashesVar /\ mods[i].kind \in kinds

AllKinds ==
    {"SetEnv", "SetPath", "PrependPath", "AppendPath", "RemovePath",
     "AppendFlagsEnv", "UnsetEnv"}

\* the hashes variable holds every visited hash once, a package's before
\* those of its dependencies, and is rendered in the self-referential form
HashesRendered(root) ==
    LET rendered == inst[root].script
    IN  /\ HashesVar \in DOMAIN rendered.new_env
        /\ LET hashes == split(rendered.new_env[HashesVar], ":")
               at(n)  == CHOOSE i \in 1..Len(hashes) : hashes[i] = DagHash(n)
           IN  /\ \A n \in Reachable(db.deps, root) :
                     Cardinality({i \in 1..Len(hashes) : hashes[i] = DagHash(n)}) = 1
               /\ Len(hashes) = Cardinality(Reachable(db.deps, root))
               /\ \A n \in Reachable(db.deps, root) :
                     \A d \in Reachable(db.deps, n) \ {n} : at(n) < at(d)
        /\ Cardinality(LinesFor(rendered.ret, HashesVar)) = 1
        /\ TheLineFor(rendered.ret, HashesVar) =
               SelfRefLine(HashesVar, rendered.new_env[HashesVar])

WalkedInPostOrder(root) ==
    /\ IsPostOrder(db.deps, root, inst[root].visited)
    /\ LogEndsWith(inst[root].log, WalkLog(db, inst[root].visited))

\* a call of the install has walked the graph
Walked(root) == inst[root].script.done

\* C9 as stated: the walk is in post-order and leaves the log described, and
\* whenever no visited package sets (SetEnv, SetPath) the hashes variable,
\* the variable is rendered as described.
C9_AsStated ==
    \A root \in DOMAIN inst :
        Walked(root) =>
            /\ WalkedInPostOrder(root)
            /\ (\A n \in Reachable(db.deps, root) :
                   ~Touches(db.mods[n], {"SetEnv", "SetPath"}))
                  => HashesRendered(root)

\* C9 amended: the walk is in post-order and leaves the log described, and
\* whenever neither the compiler's custom environment nor a visited
\* package's own modifications hold any operation on the hashes variable,
\* the variable is rendered as described.
C9_PostOrderHashes ==
    \A root \in DOMAIN inst :
        Walked(root) =>
            /\ WalkedInPostOrder(root)
            /\ ( /\ ~Touches(db.compiler.custom, AllKinds)
                 /\ \A n \in Reachable(db.deps, root) :
                       ~Touches(db.mods[n], AllKinds) )
                  => HashesRendered(root)

\* C9 witness: spec 1 of the cross graph (1 needs 2 and 3, 3 needs 2) was
\* walked; its hashes are rendered h1:h3:h2.
C9_Witness ==
    /\ db.deps = DagCross
    /\ 1 \in DOMAIN inst
    /\ Walked(1)
    /\ inst[1].visited = <<2, 3, 1>>
    /\ inst[1].script.new_env[HashesVar] = <<"h","1",":","h","3",":","h","2">>

====
